---- MODULE Spec2Model ----
(***************************************************************************)
(* Model of scripts/update.mjs (the later version, with the BC snowpack    *)
(* bulletin): the Snapshot Parser, the Forecast Aggregator, the Seasonal   *)
(* Fallback, the Decision Engine (decideNext) and the run of main().       *)
(*                                                                         *)
(* Conventions                                                             *)
(*  - JavaScript null / undefined / "no regex match" is Null.              *)
(*  - Hourly quantities (rain mm, snowfall cm, temperature C) are fixed    *)
(*    point with two decimals: 200 is 2.00, 50 is 0.50.  Report figures    *)
(*    (lift counts, cm of snow, percentages) are the integers of the page. *)
(*  - An ISO date "2026-02-DD" is the integer DD (all model dates lie in   *)
(*    February 2026).                                                      *)
(*  - JavaScript arrays are 0-based, TLA+ sequences 1-based: days[0] of    *)
(*    the source is days[1] here.                                          *)
(*  - A string built from a template is a record of the template's name    *)
(*    and its arguments (reasons: [k, a, b]; labels: [text, target, day]). *)
(*  - Fields the Decision Engine never reads (lifts.closed, the other snow *)
(*    totals, bulletin blurb/sourceUrl, forecast.raw, the per-day hours    *)
(*    list) are left out of the records.                                   *)
(***************************************************************************)
EXTENDS Integers, Sequences, FiniteSets, TLC

VARIABLES
  pc,          \* position of the running code
  liftSnap,    \* main: the '#lift-status' snapshot text
  lifts,       \* LiftStatus
  snow,        \* SnowReport
  hourly,      \* j.hourly of the Open-Meteo response, as a sequence of samples
  forecast,    \* main: forecast (null | {error} | {days, excludeBefore3pmRain})
  bcSnowpack,  \* main: bcSnowpack (null | {error} | bulletin)
  next,        \* the Recommendation returned by decideNext
  dn,          \* decideNext's locals
  sg,          \* seasonalGuess's locals at its last call
  artifact,    \* data.json
  exitCode,    \* process exit status (Null while running)
  io           \* outcome of each external operation of the run

vars == <<pc, liftSnap, lifts, snow, hourly, forecast, bcSnowpack, next, dn, sg, sg,
          artifact, exitCode, io>>

Null == -1

\* ----------------------------------------------------------------- helpers
Min(S) == CHOOSE x \in S : \A y \in S : x <= y
Max(S) == CHOOSE x \in S : \A y \in S : x >= y
Range(s) == { s[i] : i \in DOMAIN s }
IsPrefix(p, s) == Len(p) <= Len(s) /\ SubSeq(s, 1, Len(p)) = p

\* A reason string: template k with arguments a, b.
R(k, a, b) == [k |-> k, a |-> a, b |-> b]

NoDay == [kind |-> "none", wd |-> "", dom |-> Null]
Label(text, target, day) == [text |-> text, target |-> target, day |-> day]

\* ------------------------------------------------------------------ bounds
\* Largest number of hourly samples in a forecast response.
MaxHours == 3
\* Largest number of distinct dates in a forecast response (past the horizon).
MaxDays == 16

\* Local dates of the hourly samples (days of February 2026).
Dates == 4..6
\* Local hours of the hourly samples: one before the cutoff, one at it.
HourVals == {14, 15}
\* (rain, snowfall, temperature) of a sample.
Wx ==
  { [rain |-> 0,   snow |-> 0,   temp |-> 200],
    [rain |-> 200, snow |-> 0,   temp |-> 200],
    [rain |-> 200, snow |-> 0,   temp |-> 50],
    [rain |-> 200, snow |-> 300, temp |-> 50],
    [rain |-> 200, snow |-> 300, temp |-> 100],
    [rain |-> 200, snow |-> 300, temp |-> 200] }
Samples ==
  { [date |-> d, hour |-> h, rain |-> w.rain, snow |-> w.snow, temp |-> w.temp] :
      d \in Dates, h \in HourVals, w \in Wx }

Before(a, b) == a.date < b.date \/ (a.date = b.date /\ a.hour < b.hour)

\* Responses of the forecast API: hourly samples in chronological order.
HourlyInputs ==
  UNION { { s \in [1..n -> Samples] : \A i \in 1..(n-1) : Before(s[i], s[i+1]) } :
            n \in 0..MaxHours }

\* Responses with one sample per day, on consecutive days from the first date.
DailyWx ==
  { [rain |-> 0,   snow |-> 0,   temp |-> 200, hour |-> 14],
    [rain |-> 200, snow |-> 0,   temp |-> 200, hour |-> 14],
    [rain |-> 200, snow |-> 0,   temp |-> 200, hour |-> 15],
    [rain |-> 200, snow |-> 300, temp |-> 50,  hour |-> 14] }
DailyInputs ==
  UNION { { [i \in 1..n |-> [date |-> Min(Dates) - 1 + i, hour |-> w[i].hour, rain |-> w[i].rain,
                             snow |-> w[i].snow, temp |-> w[i].temp]] :
              w \in [1..n -> DailyWx] } : n \in 0..Cardinality(Dates) }

\* Calendar-day offset between a date and the Vancouver-local date of the
\* host-local noon of that date: 0 on hosts from UTC-12 to UTC+4, -1 on hosts
\* east of that (noon there is still the previous day in Vancouver).
HostDayShift == {0, -1}

Months == 0..11

\* ------------------------------------------------------- Snapshot Parser
\* Number(m[1]) of a (\d+) capture, given as its sequence of digits.
RECURSIVE NumberOf(_)
NumberOf(digits) ==
  IF Len(digits) = 0 THEN 0
  ELSE 10 * NumberOf(SubSeq(digits, 1, Len(digits) - 1)) + digits[Len(digits)]

\* m ? Number(m[1]) : null -- a capture that did not match is the empty sequence.
Grab(capture) == IF capture = <<>> THEN Null ELSE NumberOf(capture)

parseLiftStatus(snapshotText) ==
  [open |-> Grab(snapshotText.open), total |-> Grab(snapshotText.total)]

parseSnow(snapshotText) ==
  [snow7DaysCm |-> Grab(snapshotText.snow7), baseDepthCm |-> Grab(snapshotText.base)]

\* --------------------------------------------------- Forecast Aggregator
Horizon == 14

Num(v) == IF v = Null THEN 0 ELSE v

\* Math.round(x * 10) / 10 on a non-negative two-decimal value.
Round1(x) == ((x + 5) \div 10) * 10

\* Faulty variant: the snow guard applies when either of its halves holds.
IsRain_GuardOr(r, s, te) == r > 0 /\ ~(te <= 100 \/ s > 0)
\* const isRain = r > 0 && !(te <= 1 && s > 0)
IsRain(r, s, te) == r > 0 /\ ~(te <= 100 /\ s > 0)


\* Faulty variant: the 15:00 sample counts as before the cutoff.
BeforeCutoff_Inclusive(hour) == hour <= 15
\* hour < 15
BeforeCutoff(hour) == hour < 15

PosOf(byDate, date) ==
  LET hit == { p \in DOMAIN byDate : byDate[p].date = date }
  IN  IF hit = {} THEN 0 ELSE Min(hit)

\* The bucketing loop: byDate is the Map, in insertion order.
RECURSIVE Bucket(_, _, _)
Bucket(h, i, byDate) ==
  IF i > Len(h) THEN byDate
  ELSE
    LET date == h[i].date
        hour == h[i].hour
        r    == Num(h[i].rain)
        s    == Num(h[i].snow)
        te   == Num(h[i].temp)
        base == IF PosOf(byDate, date) = 0
                THEN Append(byDate, [date |-> date, rainMm |-> 0, snowfallCm |-> 0,
                                     rainBefore3pm |-> FALSE])
                ELSE byDate
        p    == PosOf(base, date)
        d    == [base[p] EXCEPT
                   !.rainMm = @ + r,
                   !.snowfallCm = @ + s,
                   !.rainBefore3pm = @ \/ (BeforeCutoff(hour) /\ IsRain(r, s, te))]
    IN  Bucket(h, i + 1, [base EXCEPT ![p] = d])

Weekday(dom) == <<"Sun", "Mon", "Tue", "Wed", "Thu", "Fri", "Sat">>[((dom - 1) % 7) + 1]

\* idx is the 0-based index of the source.
DayLabel(date, idx, shift) ==
  IF idx = 0
  THEN [kind |-> "iso_today", wd |-> "", dom |-> date]
  ELSE [kind |-> "short", wd |-> Weekday(date + shift), dom |-> date + shift]

\* Faulty variant: the snow test comes before the rain-before-3pm test.
Stoke_SnowFirst(rainBefore3pm, rainMm, snowfallCm) ==
  IF snowfallCm > 0 /\ rainMm < 500 THEN "good"
  ELSE IF rainBefore3pm THEN "bad"
  ELSE IF rainMm < 200 THEN "good"
  ELSE "meh"
\* const stoke = d.rainBefore3pm ? 'bad' : snowfallCm > 0 && rainMm < 5 ? 'good'
\*   : rainMm < 2 ? 'good' : 'meh'   (5 mm = 500, 2 mm = 200)
Stoke(rainBefore3pm, rainMm, snowfallCm) ==
  IF rainBefore3pm THEN "bad"
  ELSE IF snowfallCm > 0 /\ rainMm < 500 THEN "good"
  ELSE IF rainMm < 200 THEN "good"
  ELSE "meh"

\* Faulty variant: the buckets are not cut to the horizon.
DaysOfBuckets_NoSlice(byDate, shift) ==
  [ i \in DOMAIN byDate |->
      [date |-> byDate[i].date,
       label |-> DayLabel(byDate[i].date, i - 1, shift),
       rainMm |-> Round1(byDate[i].rainMm),
       snowfallCm |-> Round1(byDate[i].snowfallCm),
       rainBefore3pm |-> byDate[i].rainBefore3pm,
       stoke |-> Stoke(byDate[i].rainBefore3pm, Round1(byDate[i].rainMm),
                       Round1(byDate[i].snowfallCm))] ]
\* Array.from(byDate.values()).slice(0, 14).map((d, idx) => ...)
DaysOfBuckets(byDate, shift) ==
  LET kept == SubSeq(byDate, 1, IF Len(byDate) < Horizon THEN Len(byDate) ELSE Horizon)
  IN  [ i \in DOMAIN kept |->
          LET d == kept[i]
              rainMm == Round1(d.rainMm)
              snowfallCm == Round1(d.snowfallCm)
          IN  [date |-> d.date,
               label |-> DayLabel(d.date, i - 1, shift),
               rainMm |-> rainMm,
               snowfallCm |-> snowfallCm,
               rainBefore3pm |-> d.rainBefore3pm,
               stoke |-> Stoke(d.rainBefore3pm, rainMm, snowfallCm)] ]

\* Faulty variant: only day 0 is entered in the map.
ExcludeMap_TodayOnly(days) ==
  [ dt \in { days[i].date : i \in DOMAIN days \cap {1} } |-> days[1].rainBefore3pm ]
\* Faulty variant: each date is given the flag of the day after it.
ExcludeMap_Shifted(days) ==
  [ dt \in { days[i].date : i \in DOMAIN days } |->
      LET last == Max({ i \in DOMAIN days : days[i].date = dt })
      IN  days[IF last < Len(days) THEN last + 1 ELSE last].rainBefore3pm ]
\* for (const d of days) excludeBefore3pmRain[d.date] = d.rainBefore3pm
ExcludeMap(days) ==
  [ dt \in { days[i].date : i \in DOMAIN days } |->
      days[Max({ i \in DOMAIN days : days[i].date = dt })].rainBefore3pm ]

NoMap == [ dt \in {} |-> FALSE ]
NullForecast == [kind |-> "null", days |-> <<>>, excludeBefore3pmRain |-> NoMap, error |-> ""]
ErrorForecast(msg) ==
  [kind |-> "error", days |-> <<>>, excludeBefore3pmRain |-> NoMap, error |-> msg]

\* The value fetchForecast returns for response body h on a host with the
\* given day shift.
ForecastOf(h, shift) ==
  LET days == DaysOfBuckets(Bucket(h, 1, <<>>), shift)
  IN  [kind |-> "ok", days |-> days, excludeBefore3pmRain |-> ExcludeMap(days),
       error |-> ""]

\* ------------------------------------------------------- Bulletin (shape)
NullBulletin ==
  [kind |-> "null", updatedOn |-> Null, provincialPctMedian |-> Null,
   vancouverIslandPctMedian |-> Null, error |-> ""]
ErrorBulletin(msg) ==
  [kind |-> "error", updatedOn |-> Null, provincialPctMedian |-> Null,
   vancouverIslandPctMedian |-> Null, error |-> msg]
\* What fetchBCSnowpack returns for a page whose three patterns captured
\* updatedOn, prov and vanIsle (Null where a pattern did not match).
Bulletin(updatedOn, prov, vanIsle) ==
  [kind |-> "ok", updatedOn |-> updatedOn, provincialPctMedian |-> prov,
   vancouverIslandPctMedian |-> vanIsle, error |-> ""]

\* ------------------------------------------------------ Seasonal Fallback
\* bcSnowpack?.provincialPctMedian ?? null (an error placeholder has no such field)
ProvOf(bc) == IF bc.kind = "ok" THEN bc.provincialPctMedian ELSE Null
VanIsleOf(bc) == IF bc.kind = "ok" THEN bc.vancouverIslandPctMedian ELSE Null
UpdatedOnOf(bc) == IF bc.kind = "ok" THEN bc.updatedOn ELSE Null

BiasNotes(bc) ==
  (IF VanIsleOf(bc) # Null THEN <<R("bc_vancouver_island_avg", VanIsleOf(bc), UpdatedOnOf(bc))>>
   ELSE <<>>)
  \o
  (IF ProvOf(bc) # Null THEN <<R("bc_provincial_avg", ProvOf(bc), UpdatedOnOf(bc))>>
   ELSE <<>>)

\* Faulty variant: the four thresholds are exclusive.
Bias_Exclusive(bc) ==
  (IF VanIsleOf(bc) # Null
   THEN (IF VanIsleOf(bc) > 110 THEN 1 ELSE 0) - (IF VanIsleOf(bc) < 85 THEN 1 ELSE 0)
   ELSE 0)
  +
  (IF ProvOf(bc) # Null
   THEN (IF ProvOf(bc) > 115 THEN 1 ELSE 0) - (IF ProvOf(bc) < 95 THEN 1 ELSE 0)
   ELSE 0)
\* let bias = 0; if (vanIsle != null) {...}; if (prov != null) {...}
Bias(bc) ==
  (IF VanIsleOf(bc) # Null
   THEN (IF VanIsleOf(bc) >= 110 THEN 1 ELSE 0) - (IF VanIsleOf(bc) <= 85 THEN 1 ELSE 0)
   ELSE 0)
  +
  (IF ProvOf(bc) # Null
   THEN (IF ProvOf(bc) >= 115 THEN 1 ELSE 0) - (IF ProvOf(bc) <= 95 THEN 1 ELSE 0)
   ELSE 0)

\* const target = bias > 0 ? ... : bias < 0 ? ... : ... of the May-Oct branch
OffSeasonTarget(bias) ==
  IF bias > 0 THEN "late Nov (maybe early)"
  ELSE IF bias < 0 THEN "mid/late Dec"
  ELSE "late Nov / Dec"
\* Faulty variant: the two biased targets of the November branch are swapped.
PreSeasonTarget_Swapped(bias) ==
  IF bias > 0 THEN "early/mid Dec"
  ELSE IF bias < 0 THEN "mid/late Nov"
  ELSE "late Nov / early Dec"
\* const target = ... of the November branch
PreSeasonTarget(bias) ==
  IF bias > 0 THEN "mid/late Nov"
  ELSE IF bias < 0 THEN "early/mid Dec"
  ELSE "late Nov / early Dec"

\* Faulty variant: the closing return of the spring window is missing, so
\* March, April and December produce no guess.
seasonalGuess_NoSpring(bc, month) ==
  IF month >= 4 /\ month <= 9 THEN
    [label |-> Label("Next season (aim for ${target}) - check again in fall",
                     "late Nov / Dec", NoDay),
     confidence |-> "bad",
     reasons |-> <<R("out_of_season", Null, Null), R("historical_pattern", Null, Null)>>
                 \o BiasNotes(bc)]
  ELSE IF month <= 1 \/ month = 10 THEN
    [label |-> Label("This week / next week (prime season) - watch for fresh snow + cold nights",
                     "", NoDay),
     confidence |-> "meh",
     reasons |-> <<R("prime_season", Null, Null)>> \o BiasNotes(bc)]
  ELSE
    [label |-> Label("", "", NoDay), confidence |-> "undefined", reasons |-> <<>>]
\* Faulty variant: the prime-season guess is given confidence 'good'.
seasonalGuess_PrimeGood(bc, month) ==
  IF month >= 4 /\ month <= 9 THEN
    [label |-> Label("Next season (aim for ${target}) - check again in fall",
                     OffSeasonTarget(Bias(bc)), NoDay),
     confidence |-> "bad",
     reasons |-> <<R("out_of_season", Null, Null), R("historical_pattern", Null, Null)>>
                 \o BiasNotes(bc)]
  ELSE IF month = 10 THEN
    [label |-> Label("Likely ${target} (watch for first storms)",
                     PreSeasonTarget(Bias(bc)), NoDay),
     confidence |-> "meh",
     reasons |-> <<R("early_season", Null, Null)>> \o BiasNotes(bc)]
  ELSE IF month <= 1 THEN
    [label |-> Label("This week / next week (prime season) - watch for fresh snow + cold nights",
                     "", NoDay),
     confidence |-> "good",
     reasons |-> <<R("prime_season", Null, Null)>> \o BiasNotes(bc)]
  ELSE
    [label |-> Label("Next 1-2 weeks (spring variable) - prioritize cold nights + fresh snow",
                     "", NoDay),
     confidence |-> "meh",
     reasons |-> <<R("spring_volatile", Null, Null)>> \o BiasNotes(bc)]
\* month is new Date().getMonth(), 0 = January.
seasonalGuess(bc, month) ==
  LET bias == Bias(bc)
      biasNotes == BiasNotes(bc)
  IN
  IF month >= 4 /\ month <= 9 THEN
    [label |-> Label("Next season (aim for ${target}) - check again in fall",
                     OffSeasonTarget(bias), NoDay),
     confidence |-> "bad",
     reasons |-> <<R("out_of_season", Null, Null), R("historical_pattern", Null, Null)>>
                 \o biasNotes]
  ELSE IF month = 10 THEN
    [label |-> Label("Likely ${target} (watch for first storms)",
                     PreSeasonTarget(bias), NoDay),
     confidence |-> "meh",
     reasons |-> <<R("early_season", Null, Null)>> \o biasNotes]
  ELSE IF month <= 1 THEN
    [label |-> Label("This week / next week (prime season) - watch for fresh snow + cold nights",
                     "", NoDay),
     confidence |-> "meh",
     reasons |-> <<R("prime_season", Null, Null)>> \o biasNotes]
  ELSE
    [label |-> Label("Next 1-2 weeks (spring variable) - prioritize cold nights + fresh snow",
                     "", NoDay),
     confidence |-> "meh",
     reasons |-> <<R("spring_volatile", Null, Null)>> \o biasNotes]

\* -------------------------------------------------------- Decision Engine
TodayLabelText == "Next good day: Today (no rain before 3pm) - go when you can"
NextLabelText == "Next good day: ${nextDay.label}"

\* forecast?.days ?? []
DaysOf(fc) == IF fc.kind = "ok" THEN fc.days ELSE <<>>
\* forecast?.excludeBefore3pmRain ?? {}
ExcludeMapOf(fc) == IF fc.kind = "ok" THEN fc.excludeBefore3pmRain ELSE NoMap
\* excludeMap[key] as a condition: a missing key is undefined, which is falsy.
Excluded(excludeMap, key) == key \in DOMAIN excludeMap /\ excludeMap[key]

\* Faulty variant: the snow figures are pushed before the lift status.
FactReasons_SnowFirst(l, s) ==
  (IF s.snow7DaysCm # Null THEN <<R("snow_7_days", s.snow7DaysCm, Null)>> ELSE <<>>)
  \o (IF s.baseDepthCm # Null THEN <<R("base_depth", s.baseDepthCm, Null)>> ELSE <<>>)
  \o (IF l.open # Null /\ l.total # Null THEN <<R("lift_status", l.open, l.total)>> ELSE <<>>)
\* The reasons pushed before the rules are applied.
FactReasons(l, s) ==
  (IF l.open # Null /\ l.total # Null THEN <<R("lift_status", l.open, l.total)>> ELSE <<>>)
  \o (IF s.snow7DaysCm # Null THEN <<R("snow_7_days", s.snow7DaysCm, Null)>> ELSE <<>>)
  \o (IF s.baseDepthCm # Null THEN <<R("base_depth", s.baseDepthCm, Null)>> ELSE <<>>)

\* Faulty variant: the threshold is two thirds instead of 0.67.
LiftOk_TwoThirds(l) ==
  /\ l.open # Null /\ l.total # Null
  /\ ~(l.open = 0 /\ l.total = 0)
  /\ 3 * l.open >= 2 * l.total
\* lifts.open / lifts.total >= 0.67; 0/0 is NaN, which compares false, and
\* n/0 for n > 0 is Infinity, which compares true.
LiftOk(l) ==
  /\ l.open # Null /\ l.total # Null
  /\ ~(l.open = 0 /\ l.total = 0)
  /\ 100 * l.open >= 67 * l.total
\* Faulty variant: the 7-day snow threshold is exclusive.
SnowOk_Strict(s) == s.snow7DaysCm # Null /\ s.snow7DaysCm > 10
SnowOk(s) == s.snow7DaysCm # Null /\ s.snow7DaysCm >= 10
BaseOk(s) == s.baseDepthCm # Null /\ s.baseDepthCm >= 80

TodayKey(fc) == IF Len(DaysOf(fc)) >= 1 THEN DaysOf(fc)[1].date ELSE Null
TodayExcluded(fc) == TodayKey(fc) # Null /\ Excluded(ExcludeMapOf(fc), TodayKey(fc))

\* days.find((d, idx) => idx > 0 && !excludeMap[d.date]): the position of the
\* first day found from position i on, 0 when there is none.
RECURSIVE FindNextDay(_, _, _)
FindNextDay(days, excludeMap, i) ==
  IF i > Len(days) THEN 0
  ELSE IF (i - 1) > 0 /\ ~Excluded(excludeMap, days[i].date) THEN i
  ELSE FindNextDay(days, excludeMap, i + 1)

\* Faulty variant: the scan starts at index 0.
NextDayPos_FromToday(fc) ==
  IF Len(DaysOf(fc)) >= 1 /\ ~Excluded(ExcludeMapOf(fc), DaysOf(fc)[1].date) THEN 1
  ELSE FindNextDay(DaysOf(fc), ExcludeMapOf(fc), 1)
NextDayPos(fc) == FindNextDay(DaysOf(fc), ExcludeMapOf(fc), 1)

NextDayExtra(fc, nextDay) ==
  (IF nextDay.date \in DOMAIN ExcludeMapOf(fc) /\ ExcludeMapOf(fc)[nextDay.date] = FALSE
   THEN <<R("no_rain_before_3pm_on", nextDay.date, Null)>> ELSE <<>>)
  \o (IF nextDay.snowfallCm # Null /\ nextDay.snowfallCm > 0
      THEN <<R("forecast_snowfall", nextDay.snowfallCm, Null)>> ELSE <<>>)
  \o (IF nextDay.rainMm # Null /\ nextDay.rainMm > 0
      THEN <<R("forecast_total_rain", nextDay.rainMm, Null)>> ELSE <<>>)

NoneFoundReason == R("no_acceptable_day_found_in_next_days", Horizon, Null)

\* Faulty variant: the closing note is not appended.
SeasonalResult_NoNote(reasons, seasonal) ==
  [label |-> seasonal.label, confidence |-> seasonal.confidence,
   reasons |-> reasons \o seasonal.reasons]
\* { ...seasonal, reasons: [...reasons, ...seasonal.reasons, 'Also: ...'] }
SeasonalResult(reasons, seasonal) ==
  [label |-> seasonal.label, confidence |-> seasonal.confidence,
   reasons |-> reasons \o seasonal.reasons \o <<NoneFoundReason>>]

\* Which rule of decideNext decides: "today", "next" or "seasonal".
Branch(l, s, fc) ==
  IF ~TodayExcluded(fc) /\ LiftOk(l) /\ (SnowOk(s) \/ BaseOk(s)) THEN "today"
  ELSE IF NextDayPos(fc) # 0 THEN "next"
  ELSE "seasonal"

decideNext(l, s, fc, bc, month) ==
  LET reasons == FactReasons(l, s)
                 \o (IF TodayExcluded(fc) THEN <<R("excluded_today", Null, Null)>> ELSE <<>>)
      branch == Branch(l, s, fc)
  IN
  IF branch = "today" THEN
    [label |-> Label(TodayLabelText, "", NoDay), confidence |-> "good", reasons |-> reasons]
  ELSE IF branch = "next" THEN
    LET nextDay == DaysOf(fc)[NextDayPos(fc)]
    IN  [label |-> Label(NextLabelText, "", nextDay.label),
         confidence |-> "meh",
         reasons |-> reasons \o NextDayExtra(fc, nextDay)]
  ELSE SeasonalResult(reasons, seasonalGuess(bc, month))

\* decideNext's locals, as the state records them.  month is the month
\* seasonalGuess read (Null when it was not called).
Locals(l, s, fc, month) ==
  [liftOk |-> LiftOk(l), snowOk |-> SnowOk(s), baseOk |-> BaseOk(s),
   todayExcluded |-> TodayExcluded(fc),
   branch |-> Branch(l, s, fc),
   nextDayPos |-> IF Branch(l, s, fc) = "today" THEN 0 ELSE NextDayPos(fc),
   month |-> IF Branch(l, s, fc) = "seasonal" THEN month ELSE Null]

\* seasonalGuess's locals: the bias and the month it read.
SeasonalLocals(bc, month) == [bias |-> Bias(bc), month |-> month]
NoSeasonal == [bias |-> 0, month |-> Null]

NoLocals ==
  [liftOk |-> FALSE, snowOk |-> FALSE, baseOk |-> FALSE, todayExcluded |-> FALSE,
   branch |-> "none", nextDayPos |-> 0, month |-> Null]
NoNext == [label |-> Label("", "", NoDay), confidence |-> "none", reasons |-> <<>>]

\* ------------------------------------------------------------- input sets
Digits(n) == IF n < 10 THEN <<n>>
             ELSE IF n < 100 THEN <<n \div 10, n % 10>>
             ELSE <<n \div 100, (n \div 10) % 10, n % 10>>
Capture(v) == IF v = Null THEN <<>> ELSE Digits(v)

\* What the two page regions can show during a run of main.
LiftSnapshots ==
  { [open |-> Capture(6), total |-> Capture(6)],
    [open |-> Capture(1), total |-> Capture(6)],
    [open |-> Capture(Null), total |-> Capture(Null)] }
SnowSnapshots ==
  { [snow7 |-> Capture(15), base |-> Capture(150)],
    [snow7 |-> Capture(Null), base |-> Capture(Null)] }

\* Arguments of decideNext.
EngineLifts ==
  { [open |-> o, total |-> t] : o \in {Null, 1, 2, 4, 6}, t \in {Null, 2, 3, 6} }
EngineSnow ==
  { [snow7DaysCm |-> s, baseDepthCm |-> b] : s \in {Null, 9, 10}, b \in {Null, 79, 80} }
  \cup { [snow7DaysCm |-> 15, baseDepthCm |-> 150] }
ForecastErrors == { "open-meteo: HTTP 500", "fetch failed" }
EngineForecasts ==
  { ForecastOf(h, sh) : h \in DailyInputs, sh \in HostDayShift }
  \cup { NullForecast } \cup { ErrorForecast(m) : m \in ForecastErrors }
BulletinErrors == { "fetch bulletin: HTTP 503" }
\* Bulletins main can hold when it calls decideNext; updatedOn 115 is Jan 15.
Bulletins ==
  { Bulletin(115, 127, 110), Bulletin(Null, Null, Null) }
  \cup { ErrorBulletin(m) : m \in BulletinErrors }

EngineBulletins ==
  { Bulletin(115, 127, 110), ErrorBulletin("fetch bulletin: HTTP 503"), NullBulletin }

NoIo == [open |-> "none", wait |-> "none", snapLift |-> "none", snapSnow |-> "none",
         forecast |-> "none", bulletin |-> "none", write |-> "none", close |-> "none"]
NoSnap == [open |-> <<>>, total |-> <<>>]
NoLifts == [open |-> Null, total |-> Null]
NoSnow == [snow7DaysCm |-> Null, baseDepthCm |-> Null]
NoArtifact ==
  [exists |-> FALSE, lifts |-> NoLifts, snow |-> NoSnow, forecast |-> NullForecast,
   bcSnowpack |-> NullBulletin, next |-> NoNext]

\* ------------------------------------------------------------------ main()
Init ==
  /\ pc = "ab_open"
  /\ liftSnap = NoSnap
  /\ lifts = NoLifts
  /\ snow = NoSnow
  /\ hourly = <<>>
  /\ forecast = NullForecast
  /\ bcSnowpack = NullBulletin
  /\ next = NoNext
  /\ dn = NoLocals
  /\ sg = NoSeasonal
  /\ artifact = NoArtifact
  /\ exitCode = Null
  /\ io = NoIo

\* main().catch(err => { console.error(err); process.exit(1) })
Reject(op) ==
  /\ io' = [io EXCEPT ![op] = "fail"]
  /\ pc' = "exit"
  /\ exitCode' = 1

\* await ab('open', ...)
AbOpenOk ==
  /\ pc = "ab_open"
  /\ io' = [io EXCEPT !.open = "ok"]
  /\ pc' = "ab_wait"
  /\ UNCHANGED <<liftSnap, lifts, snow, hourly, forecast, bcSnowpack, next, dn, sg, artifact, exitCode>>
AbOpenFail ==
  /\ pc = "ab_open"
  /\ Reject("open")
  /\ UNCHANGED <<liftSnap, lifts, snow, hourly, forecast, bcSnowpack, next, dn, sg, artifact>>

\* await ab('wait', '3500')
AbWaitOk ==
  /\ pc = "ab_wait"
  /\ io' = [io EXCEPT !.wait = "ok"]
  /\ pc' = "snap_lift"
  /\ UNCHANGED <<liftSnap, lifts, snow, hourly, forecast, bcSnowpack, next, dn, sg, artifact, exitCode>>
AbWaitFail ==
  /\ pc = "ab_wait"
  /\ Reject("wait")
  /\ UNCHANGED <<liftSnap, lifts, snow, hourly, forecast, bcSnowpack, next, dn, sg, artifact>>

\* const liftSnap = await ab('snapshot', '-s', '#lift-status', '-c')
SnapLiftOk ==
  /\ pc = "snap_lift"
  /\ \E s \in LiftSnapshots : liftSnap' = s
  /\ io' = [io EXCEPT !.snapLift = "ok"]
  /\ pc' = "snap_snow"
  /\ UNCHANGED <<lifts, snow, hourly, forecast, bcSnowpack, next, dn, sg, artifact, exitCode>>
SnapLiftFail ==
  /\ pc = "snap_lift"
  /\ Reject("snapLift")
  /\ UNCHANGED <<liftSnap, lifts, snow, hourly, forecast, bcSnowpack, next, dn, sg, artifact>>

\* const snowSnap = await ab('snapshot', '-s', '#snow', '-c'); both parses;
\* fetchForecast() is called.
SnapSnowOk ==
  /\ pc = "snap_snow"
  /\ \E s \in SnowSnapshots : snow' = parseSnow(s)
  /\ lifts' = parseLiftStatus(liftSnap)
  /\ io' = [io EXCEPT !.snapSnow = "ok"]
  /\ pc' = "fetch_forecast"
  /\ UNCHANGED <<liftSnap, hourly, forecast, bcSnowpack, next, dn, sg, artifact, exitCode>>
SnapSnowFail ==
  /\ pc = "snap_snow"
  /\ Reject("snapSnow")
  /\ UNCHANGED <<liftSnap, lifts, snow, hourly, forecast, bcSnowpack, next, dn, sg, artifact>>

\* forecast = await fetchForecast(); fetchBCSnowpack() is called.
ForecastOk ==
  /\ pc = "fetch_forecast"
  /\ \E h \in DailyInputs, sh \in HostDayShift :
       /\ hourly' = h
       /\ forecast' = ForecastOf(h, sh)
  /\ io' = [io EXCEPT !.forecast = "ok"]
  /\ pc' = "fetch_bulletin"
  /\ UNCHANGED <<liftSnap, lifts, snow, bcSnowpack, next, dn, sg, artifact, exitCode>>

\* Faulty variant: the rejection of fetchForecast is not caught.
ForecastFail_Abort ==
  /\ pc = "fetch_forecast"
  /\ Reject("forecast")
  /\ UNCHANGED <<liftSnap, lifts, snow, hourly, forecast, bcSnowpack, next, dn, sg, artifact>>
\* catch (e) { forecast = { error: String(e?.message ?? e) } }
ForecastFail ==
  /\ pc = "fetch_forecast"
  /\ \E m \in ForecastErrors : forecast' = ErrorForecast(m)
  /\ io' = [io EXCEPT !.forecast = "fail"]
  /\ pc' = "fetch_bulletin"
  /\ UNCHANGED <<liftSnap, lifts, snow, hourly, bcSnowpack, next, dn, sg, artifact, exitCode>>

\* const next = decideNext({ lifts, snow, forecast, bcSnowpack }); the output
\* object is built and fs.writeFile is called.
DecideAndWrite(bc) ==
  /\ \E month \in Months :
       /\ next' = decideNext(lifts, snow, forecast, bc, month)
       /\ dn' = Locals(lifts, snow, forecast, month)
       /\ sg' = IF Branch(lifts, snow, forecast) = "seasonal"
                THEN SeasonalLocals(bc, month) ELSE sg
  /\ pc' = "write"

\* bcSnowpack = await fetchBCSnowpack()
BulletinOk ==
  /\ pc = "fetch_bulletin"
  /\ \E b \in { x \in Bulletins : x.kind = "ok" } :
       /\ bcSnowpack' = b
       /\ DecideAndWrite(b)
  /\ io' = [io EXCEPT !.bulletin = "ok"]
  /\ UNCHANGED <<liftSnap, lifts, snow, hourly, forecast, artifact, exitCode>>

\* catch (e) { bcSnowpack = { error: ..., sourceUrl: ... } }
BulletinFail ==
  /\ pc = "fetch_bulletin"
  /\ \E b \in { x \in Bulletins : x.kind = "error" } :
       /\ bcSnowpack' = b
       /\ DecideAndWrite(b)
  /\ io' = [io EXCEPT !.bulletin = "fail"]
  /\ UNCHANGED <<liftSnap, lifts, snow, hourly, forecast, artifact, exitCode>>

\* await fs.writeFile(.../data.json, JSON.stringify(out)); ab('close') is called.
WriteOk ==
  /\ pc = "write"
  /\ artifact' = [exists |-> TRUE, lifts |-> lifts, snow |-> snow, forecast |-> forecast,
                  bcSnowpack |-> bcSnowpack, next |-> next]
  /\ io' = [io EXCEPT !.write = "ok"]
  /\ pc' = "ab_close"
  /\ UNCHANGED <<liftSnap, lifts, snow, hourly, forecast, bcSnowpack, next, dn, sg, exitCode>>
WriteFail ==
  /\ pc = "write"
  /\ Reject("write")
  /\ UNCHANGED <<liftSnap, lifts, snow, hourly, forecast, bcSnowpack, next, dn, sg, artifact>>

\* try { await ab('close') } catch {}; 'Wrote data.json'; main resolves.
Finish(outcome) ==
  /\ pc = "ab_close"
  /\ io' = [io EXCEPT !.close = outcome]
  /\ pc' = "exit"
  /\ exitCode' = 0
  /\ UNCHANGED <<liftSnap, lifts, snow, hourly, forecast, bcSnowpack, next, dn, sg, artifact>>
CloseOk == Finish("ok")
CloseFail == Finish("fail")

Next ==
  \/ AbOpenOk \/ AbOpenFail
  \/ AbWaitOk \/ AbWaitFail
  \/ SnapLiftOk \/ SnapLiftFail
  \/ SnapSnowOk \/ SnapSnowFail
  \/ ForecastOk \/ ForecastFail
  \/ BulletinOk \/ BulletinFail
  \/ WriteOk \/ WriteFail
  \/ CloseOk \/ CloseFail

Spec == Init /\ [][Next]_vars

\* ----------------------------------------------- decideNext as a function
\* The state at a call of decideNext, for every argument combination.  main
\* itself passes a forecast that is error-shaped or fetched, never null; the
\* null forecast is part of what decideNext accepts (forecast?.days).
InitDecide ==
  /\ pc = "decide_call"
  /\ liftSnap = NoSnap
  /\ lifts \in EngineLifts
  /\ snow \in EngineSnow
  /\ hourly = <<>>
  /\ forecast \in EngineForecasts
  /\ bcSnowpack \in EngineBulletins
  /\ next = NoNext
  /\ dn = NoLocals
  /\ sg = NoSeasonal
  /\ artifact = NoArtifact
  /\ exitCode = Null
  /\ io = NoIo

DecideStep ==
  /\ pc = "decide_call"
  /\ \E month \in Months :
       /\ next' = decideNext(lifts, snow, forecast, bcSnowpack, month)
       /\ dn' = Locals(lifts, snow, forecast, month)
       /\ sg' = IF Branch(lifts, snow, forecast) = "seasonal"
                THEN SeasonalLocals(bcSnowpack, month) ELSE sg
  /\ pc' = "decide_ret"
  /\ UNCHANGED <<liftSnap, lifts, snow, hourly, forecast, bcSnowpack, artifact, exitCode, io>>

NextDecide == DecideStep

SpecDecide == InitDecide /\ [][NextDecide]_vars

\* -------------------------------- fetchForecast's aggregation, then decideNext
\* The report beside the forecast: everything favourable, or nothing parsed.
ReportCases ==
  { <<[open |-> Capture(6), total |-> Capture(6)],
      [snow7 |-> Capture(15), base |-> Capture(150)]>>,
    <<[open |-> Capture(Null), total |-> Capture(Null)],
      [snow7 |-> Capture(Null), base |-> Capture(Null)]>> }
InitForecast ==
  /\ pc = "aggregate_call"
  /\ liftSnap = NoSnap
  /\ \E c \in ReportCases :
       /\ lifts = parseLiftStatus(c[1])
       /\ snow = parseSnow(c[2])
  /\ hourly \in HourlyInputs
  /\ forecast = NullForecast
  /\ bcSnowpack = ErrorBulletin("fetch bulletin: HTTP 503")
  /\ next = NoNext
  /\ dn = NoLocals
  /\ sg = NoSeasonal
  /\ artifact = NoArtifact
  /\ exitCode = Null
  /\ io = NoIo

AggregateStep ==
  /\ pc = "aggregate_call"
  /\ \E sh \in HostDayShift : forecast' = ForecastOf(hourly, sh)
  /\ pc' = "decide_call"
  /\ UNCHANGED <<liftSnap, lifts, snow, hourly, bcSnowpack, next, dn, sg, artifact, exitCode, io>>

NextForecast == AggregateStep \/ DecideStep

SpecForecast == InitForecast /\ [][NextForecast]_vars

\* ------------------------------------------- fetchForecast's aggregation
\* Responses whose daily totals fall beside the stoke thresholds and between
\* two tenths: samples on two dates, before and after the cutoff.
StokeDates == {4, 5}
StokeHours == {14, 15, 16}
StokeWx ==
  { [rain |-> 0,   snow |-> 0,   temp |-> 200],
    [rain |-> 4,   snow |-> 0,   temp |-> 200],
    [rain |-> 196, snow |-> 0,   temp |-> 200],
    [rain |-> 196, snow |-> 300, temp |-> 200],
    [rain |-> 300, snow |-> 4,   temp |-> 200],
    [rain |-> 300, snow |-> 300, temp |-> 200],
    [rain |-> 300, snow |-> 300, temp |-> 50] }
StokeSamples ==
  { [date |-> d, hour |-> h, rain |-> w.rain, snow |-> w.snow, temp |-> w.temp] :
      d \in StokeDates, h \in StokeHours, w \in StokeWx }
StokeInputs ==
  UNION { { s \in [1..n -> StokeSamples] : \A i \in 1..(n-1) : Before(s[i], s[i+1]) } :
            n \in 0..MaxHours }

\* Responses that run past the horizon: one morning sample on each of the
\* dates 1..n (rain on date r, if any), then possibly one more afternoon sample
\* of an earlier date e.
LongSample(date, hour, rainy) ==
  [date |-> date, hour |-> hour, rain |-> IF rainy THEN 200 ELSE 0, snow |-> 0, temp |-> 200]
LongInputs ==
  UNION { UNION { { [i \in 1..n |-> LongSample(i, 14, i = r)]
                      \o (IF e = 0 THEN <<>> ELSE <<LongSample(e, 16, FALSE)>>) :
                    e \in 0..n } : r \in 0..n } : n \in 0..MaxDays }

InitAggregate ==
  /\ pc = "aggregate_call"
  /\ liftSnap = NoSnap
  /\ lifts = NoLifts
  /\ snow = NoSnow
  /\ hourly \in StokeInputs \cup LongInputs
  /\ forecast = NullForecast
  /\ bcSnowpack = NullBulletin
  /\ next = NoNext
  /\ dn = NoLocals
  /\ sg = NoSeasonal
  /\ artifact = NoArtifact
  /\ exitCode = Null
  /\ io = NoIo

NextAggregate == AggregateStep

SpecAggregate == InitAggregate /\ [][NextAggregate]_vars

\* ------------------------------------ parseLiftStatus, then decideNext
\* The digits the two patterns of parseLiftStatus can capture from the lifts
\* region: no match, or any run of one or two digits (leading zero included).
ParsedCounts == 0 .. 12
LiftCaptures == { Capture(v) : v \in {Null} \cup ParsedCounts } \cup { <<0, 6>> }
ParseSnapshots == { [open |-> o, total |-> t] : o \in LiftCaptures, t \in LiftCaptures }

InitParse ==
  /\ pc = "parse_call"
  /\ liftSnap \in ParseSnapshots
  /\ lifts = NoLifts
  /\ snow = parseSnow([snow7 |-> Capture(15), base |-> Capture(150)])
  /\ hourly = <<>>
  /\ forecast = NullForecast
  /\ bcSnowpack = NullBulletin
  /\ next = NoNext
  /\ dn = NoLocals
  /\ sg = NoSeasonal
  /\ artifact = NoArtifact
  /\ exitCode = Null
  /\ io = NoIo

\* const lifts = parseLiftStatus(liftSnap)
ParseStep ==
  /\ pc = "parse_call"
  /\ lifts' = parseLiftStatus(liftSnap)
  /\ pc' = "decide_call"
  /\ UNCHANGED <<liftSnap, snow, hourly, forecast, bcSnowpack, next, dn, sg, artifact, exitCode, io>>

NextParse == ParseStep \/ DecideStep

SpecParse == InitParse /\ [][NextParse]_vars

\* ------------------------------------------------ seasonalGuess on its own
\* Percentages of median on both sides of each threshold, or absent.
VanIslePcts == {Null, 80, 85, 86, 100, 109, 110, 127}
ProvPcts == {Null, 90, 95, 96, 100, 114, 115, 127}
SeasonalBulletins ==
  { Bulletin(115, p, v) : p \in ProvPcts, v \in VanIslePcts }
  \cup { NullBulletin, ErrorBulletin("fetch bulletin: HTTP 503") }

InitSeasonal ==
  /\ pc = "seasonal_call"
  /\ liftSnap = NoSnap
  /\ lifts = NoLifts
  /\ snow = NoSnow
  /\ hourly = <<>>
  /\ forecast = NullForecast
  /\ bcSnowpack \in SeasonalBulletins
  /\ next = NoNext
  /\ dn = NoLocals
  /\ sg = NoSeasonal
  /\ artifact = NoArtifact
  /\ exitCode = Null
  /\ io = NoIo

\* seasonalGuess({ bcSnowpack }) in the month the clock shows
SeasonalStep ==
  /\ pc = "seasonal_call"
  /\ \E month \in Months :
       /\ next' = seasonalGuess(bcSnowpack, month)
       /\ sg' = SeasonalLocals(bcSnowpack, month)
  /\ pc' = "seasonal_ret"
  /\ UNCHANGED <<liftSnap, lifts, snow, hourly, forecast, bcSnowpack, dn, artifact, exitCode, io>>

NextSeasonal == SeasonalStep

SpecSeasonal == InitSeasonal /\ [][NextSeasonal]_vars

\* ================================================================== claims
Present(l) == l.open # Null /\ l.total # Null
\* open/total >= 0.67, on the integers of the report
RatioAtLeast067(l) == 100 * l.open >= 67 * l.total
\* Day 0 of the forecast, as its own record says it.
Day0Rainy(fc) == fc.kind = "ok" /\ Len(fc.days) >= 1 /\ fc.days[1].rainBefore3pm
Snow7AtLeast10(s) == s.snow7DaysCm # Null /\ s.snow7DaysCm >= 10
BaseAtLeast80(s) == s.baseDepthCm # Null /\ s.baseDepthCm >= 80
\* The positions (>= 2, i.e. source index >= 1) of the days without rain before 3pm.
DryLaterDays(fc) ==
  IF fc.kind = "ok" THEN { i \in DOMAIN fc.days : i >= 2 /\ ~fc.days[i].rainBefore3pm }
  ELSE {}
\* The condition of the today rule, on the inputs.
TodayRuleFires(l, s, fc) ==
  /\ ~Day0Rainy(fc)
  /\ Present(l) /\ RatioAtLeast067(l)
  /\ (Snow7AtLeast10(s) \/ BaseAtLeast80(s))

\* C1, as stated: with open and total present, liftOk holds exactly when
\* open/total >= 0.67; a ratio of exactly 2/3 gives liftOk = true and 1/2 gives
\* false; with open or total null liftOk is false.
C1_LiftOkAsStated ==
  pc = "decide_ret" =>
    /\ Present(lifts) => (dn.liftOk <=> RatioAtLeast067(lifts))
    /\ (Present(lifts) /\ 3 * lifts.open = 2 * lifts.total) => dn.liftOk
    /\ (Present(lifts) /\ 2 * lifts.open = lifts.total) => ~dn.liftOk
    /\ ~Present(lifts) => ~dn.liftOk

\* C1, amended: with open and total present, liftOk holds exactly when
\* open/total >= 0.67; a ratio of exactly 2/3 (2 of 3, 4 of 6) is below 0.67 and
\* gives liftOk = false, as 1/2 does; with open or total null liftOk is false.
C1_LiftOk ==
  pc = "decide_ret" =>
    /\ Present(lifts) => (dn.liftOk <=> RatioAtLeast067(lifts))
    /\ (Present(lifts) /\ 3 * lifts.open = 2 * lifts.total) => ~dn.liftOk
    /\ (Present(lifts) /\ 2 * lifts.open = lifts.total) => ~dn.liftOk
    /\ ~Present(lifts) => ~dn.liftOk

C1_Witness ==
  /\ pc = "decide_ret"
  /\ lifts = [open |-> 4, total |-> 6]
  /\ ~dn.liftOk

\* C2: first match wins for today: when day 0 is not rainy before 3pm, the lift
\* ratio is at least 0.67 and (7-day snow >= 10 or base depth >= 80), decideNext
\* returns confidence 'good' with the Today label, whatever the later days and
\* the bulletin are.
C2_TodayFirst ==
  ( /\ pc = "decide_ret"
    /\ ~Day0Rainy(forecast)
    /\ Present(lifts) /\ RatioAtLeast067(lifts)
    /\ (Snow7AtLeast10(snow) \/ BaseAtLeast80(snow)) )
  => /\ next.confidence = "good"
     /\ next.label.text = TodayLabelText

\* lifts 6/6, snow7Days 15, base 150, day 0 not rainy, a dry day 1 behind it
C2_Witness ==
  /\ pc = "decide_ret"
  /\ lifts = [open |-> 6, total |-> 6]
  /\ snow = [snow7DaysCm |-> 15, baseDepthCm |-> 150]
  /\ forecast.kind = "ok" /\ Len(forecast.days) >= 2
  /\ ~forecast.days[1].rainBefore3pm
  /\ ~forecast.days[2].rainBefore3pm
  /\ next.confidence = "good"

\* C3: todayExcluded is true iff forecast day 0's rainBefore3pm is true; it is
\* false for a null, an error-shaped and an empty forecast.
C3_TodayExcluded ==
  pc = "decide_ret" => (dn.todayExcluded <=> Day0Rainy(forecast))

C3_Witness ==
  /\ pc = "decide_ret"
  /\ forecast.kind = "ok" /\ Len(forecast.days) >= 2
  /\ forecast.days[1].rainBefore3pm /\ ~forecast.days[2].rainBefore3pm
  /\ dn.todayExcluded

\* C4: when the today rule does not fire and some day at index >= 1 has no rain
\* before 3pm, decideNext selects the lowest such index (never day 0, skipping
\* no dry day), returns 'meh', and its reasons are the facts gathered so far
\* followed by that day's extras, which hold the snowfall figure exactly when it
\* is > 0 and the rain figure exactly when it is > 0.
C4_NextDayScan ==
  ( /\ pc = "decide_ret"
    /\ ~TodayRuleFires(lifts, snow, forecast)
    /\ DryLaterDays(forecast) # {} )
  => LET pos == Min(DryLaterDays(forecast))
         d == forecast.days[pos]
         facts == FactReasons(lifts, snow)
                  \o (IF Day0Rainy(forecast) THEN <<R("excluded_today", Null, Null)>> ELSE <<>>)
         extras == SubSeq(next.reasons, Len(facts) + 1, Len(next.reasons))
     IN  /\ dn.nextDayPos = pos
         /\ dn.nextDayPos # 1
         /\ next.confidence = "meh"
         /\ IsPrefix(facts, next.reasons)
         /\ (R("forecast_snowfall", d.snowfallCm, Null) \in Range(extras)) <=> (d.snowfallCm > 0)
         /\ (R("forecast_total_rain", d.rainMm, Null) \in Range(extras)) <=> (d.rainMm > 0)
         /\ \A i \in DOMAIN extras :
              extras[i].k \in {"no_rain_before_3pm_on", "forecast_snowfall", "forecast_total_rain"}

\* day 0 dry but lifts closed, day 1 rainy, day 2 dry with snow and rain figures
C4_Witness ==
  /\ pc = "decide_ret"
  /\ dn.branch = "next"
  /\ ~dn.liftOk
  /\ Len(forecast.days) >= 3
  /\ ~forecast.days[1].rainBefore3pm
  /\ forecast.days[2].rainBefore3pm
  /\ dn.nextDayPos = 3
  /\ forecast.days[3].snowfallCm > 0 /\ forecast.days[3].rainMm > 0

\* C5: rain-exclusion scenario: lifts 6/6, snow7Days 15, base 150, day 0 rainy
\* before 3pm, day 1 dry with date 2026-02-05: decideNext returns 'meh' and a
\* label that names 2026-02-05 (Thu, Feb 5).
C5_RainExclusionScenario ==
  ( /\ pc = "decide_ret"
    /\ lifts = [open |-> 6, total |-> 6]
    /\ snow = [snow7DaysCm |-> 15, baseDepthCm |-> 150]
    /\ forecast.kind = "ok" /\ Len(forecast.days) >= 2
    /\ forecast.days[1].rainBefore3pm
    /\ ~forecast.days[2].rainBefore3pm
    /\ forecast.days[2].date = 5 )
  => /\ next.confidence = "meh"
     /\ next.label.text = NextLabelText
     /\ next.label.day.dom = 5
     /\ next.label.day.wd = "Thu"

\* C6: when the today rule does not fire and there is no forecast, or every day
\* at index >= 1 has rain before 3pm, decideNext returns the Seasonal Fallback's
\* label and confidence, and the last of its reasons is the note that no
\* acceptable (no-rain-before-3pm) day was found in the scanned horizon.
C6_SeasonalFallback ==
  ( /\ pc = "decide_ret"
    /\ ~TodayRuleFires(lifts, snow, forecast)
    /\ DryLaterDays(forecast) = {} )
  => /\ dn.month \in Months
     /\ next.label = seasonalGuess(bcSnowpack, dn.month).label
     /\ next.confidence = seasonalGuess(bcSnowpack, dn.month).confidence
     /\ Len(next.reasons) >= 1
     /\ next.reasons[Len(next.reasons)] = NoneFoundReason
     /\ \A i \in 1..(Len(next.reasons) - 1) : next.reasons[i] # NoneFoundReason

\* every forecast day, day 0 included, has rain before 3pm
C6_Witness ==
  /\ pc = "decide_ret"
  /\ forecast.kind = "ok" /\ Len(forecast.days) >= 3
  /\ \A i \in DOMAIN forecast.days : forecast.days[i].rainBefore3pm
  /\ dn.liftOk /\ dn.snowOk
  /\ next.confidence = "bad"
  /\ next.reasons[Len(next.reasons)] = NoneFoundReason

\* A sample that the exclusion rule counts as rain before 3pm on that date.
RainyBefore3pm(h, date) ==
  \E k \in DOMAIN h :
    /\ h[k].date = date
    /\ h[k].hour < 15
    /\ h[k].rain > 0
    /\ ~(h[k].temp <= 100 /\ h[k].snow > 0)

C8_RainBefore3pm ==
  pc # "aggregate_call" =>
    \A i \in DOMAIN forecast.days :
      forecast.days[i].rainBefore3pm <=> RainyBefore3pm(hourly, forecast.days[i].date)

\* three days: warm rain at 14h (flag set), temp 0.5 / rain 2 / snowfall 3 at
\* 14h (flag clear), warm rain at 15h (flag clear)
C8_Witness ==
  /\ pc = "decide_call"
  /\ Len(hourly) = 3 /\ Len(forecast.days) = 3
  /\ hourly[1] = [date |-> 4, hour |-> 14, rain |-> 200, snow |-> 0, temp |-> 200]
  /\ hourly[2] = [date |-> 5, hour |-> 14, rain |-> 200, snow |-> 300, temp |-> 50]
  /\ hourly[3] = [date |-> 6, hour |-> 15, rain |-> 200, snow |-> 0, temp |-> 200]
  /\ forecast.days[1].rainBefore3pm
  /\ ~forecast.days[2].rainBefore3pm
  /\ ~forecast.days[3].rainBefore3pm

AfterBulletin == pc \in {"write", "ab_close", "exit"} /\ io.bulletin # "none"

\* C9: each external fetch is isolated: when the forecast fetch fails, the
\* bulletin fetch fails, or both, main stores an {error: message} placeholder in
\* that source's slot, still attempts the other source, still calls decideNext
\* and still writes the artifact, which holds the placeholders and the
\* recommendation in 'next'.
C9_FetchIsolation ==
  /\ io.forecast = "fail" =>
       /\ forecast.kind = "error" /\ forecast.error \in ForecastErrors
       /\ pc = "fetch_bulletin" \/ AfterBulletin
  /\ io.bulletin = "fail" =>
       /\ bcSnowpack.kind = "error" /\ bcSnowpack.error \in BulletinErrors
       /\ io.forecast # "none"
       /\ AfterBulletin
  /\ (io.forecast = "fail" \/ io.bulletin = "fail") =>
       /\ AfterBulletin => next.confidence \in {"good", "meh", "bad"}
       /\ pc = "exit" => io.write # "none"
       /\ pc = "ab_close" => io.write = "ok"
       /\ io.write = "ok" =>
            /\ artifact.exists
            /\ artifact.forecast = forecast
            /\ artifact.bcSnowpack = bcSnowpack
            /\ artifact.next = next
            /\ artifact.next.confidence \in {"good", "meh", "bad"}

\* both fetches failed, data.json written, exit status 0
C9_Witness ==
  /\ pc = "exit"
  /\ io.forecast = "fail" /\ io.bulletin = "fail"
  /\ artifact.exists
  /\ artifact.forecast.kind = "error" /\ artifact.bcSnowpack.kind = "error"
  /\ artifact.next.confidence \in {"good", "meh", "bad"}
  /\ exitCode = 0

\* C10: the only condition under which a run of main ends with a non-zero exit
\* status is the failure to write data.json: in every run whose write does not
\* fail, no other failure (agent-browser open / wait / snapshot, forecast
\* fetch, bulletin fetch, session close) makes the exit status non-zero or
\* leaves the artifact unwritten.
C10_OnlyWriteFailureIsFatal ==
  pc = "exit" =>
    /\ exitCode # 0 => io.write = "fail"
    /\ io.write # "fail" => artifact.exists


\* C11: decideNext is total over incomplete inputs: whatever is missing among
\* the lift counts, the snow figures, the forecast (null, error-shaped or with
\* no days) and the bulletin (null or error-shaped), it returns a
\* recommendation whose confidence is good, meh or bad and whose reasons are
\* all reason strings.
ReasonKinds ==
  { "lift_status", "snow_7_days", "base_depth", "excluded_today",
    "no_rain_before_3pm_on", "forecast_snowfall", "forecast_total_rain",
    "out_of_season", "historical_pattern", "early_season", "prime_season",
    "spring_volatile", "bc_vancouver_island_avg", "bc_provincial_avg",
    "no_acceptable_day_found_in_next_days" }
IsRecommendation(r) ==
  /\ r.confidence \in {"good", "meh", "bad"}
  /\ \A i \in DOMAIN r.reasons : r.reasons[i].k \in ReasonKinds
Incomplete(l, s, fc, bc) ==
  \/ l.open = Null \/ l.total = Null
  \/ s.snow7DaysCm = Null \/ s.baseDepthCm = Null
  \/ fc.kind # "ok" \/ DaysOf(fc) = <<>>
  \/ bc.kind # "ok"
C11_TotalOverIncompleteInputs ==
  (pc = "decide_ret" /\ Incomplete(lifts, snow, forecast, bcSnowpack))
    => IsRecommendation(next)
\* Nothing at all is known and the call still returned.
C11_Witness ==
  /\ pc = "decide_ret"
  /\ lifts = NoLifts /\ snow = NoSnow
  /\ forecast = NullForecast /\ bcSnowpack = NullBulletin
  /\ next.confidence = "meh" /\ dn.month = 11

\* C12: reasons are append-only: in every branch the returned reasons start
\* with, in this order, the lift-status reason (when open and total are known),
\* the 7-day snow reason (when known), the base-depth reason (when known) and
\* the 'Excluded today' reason (exactly when today is excluded); whatever the
\* branch adds only follows that prefix.
EvidencePrefix(l, s, fc) ==
  LET lift == IF Present(l) THEN <<[k |-> "lift_status", a |-> l.open, b |-> l.total]>>
              ELSE <<>>
      snow7 == IF s.snow7DaysCm # Null
               THEN <<[k |-> "snow_7_days", a |-> s.snow7DaysCm, b |-> Null]>> ELSE <<>>
      base == IF s.baseDepthCm # Null
              THEN <<[k |-> "base_depth", a |-> s.baseDepthCm, b |-> Null]>> ELSE <<>>
      excl == IF Day0Rainy(fc)
              THEN <<[k |-> "excluded_today", a |-> Null, b |-> Null]>> ELSE <<>>
  IN  lift \o snow7 \o base \o excl
EvidenceKinds == {"lift_status", "snow_7_days", "base_depth", "excluded_today"}
C12_ReasonsAppendOnly ==
  pc = "decide_ret" =>
    LET prefix == EvidencePrefix(lifts, snow, forecast)
    IN  /\ IsPrefix(prefix, next.reasons)
        /\ \A i \in DOMAIN next.reasons :
             i > Len(prefix) => next.reasons[i].k \notin EvidenceKinds
        /\ (dn.todayExcluded <=>
              \E i \in DOMAIN next.reasons : next.reasons[i].k = "excluded_today")
\* All four facts are known, today is excluded, and a branch added its own
\* reasons behind them.
C12_Witness ==
  /\ pc = "decide_ret"
  /\ Len(EvidencePrefix(lifts, snow, forecast)) = 4
  /\ dn.todayExcluded
  /\ dn.branch = "next"
  /\ Len(next.reasons) > 5

\* C13: every LiftStatus the parser produces and main passes to decideNext
\* satisfies: if open and total are present then 0 <= open <= total.
C13_LiftStatusInvariant ==
  (pc \in {"decide_call", "decide_ret"} /\ Present(lifts))
    => (0 <= lifts.open /\ lifts.open <= lifts.total)

\* The bias the thresholds give to one percentage (absent: nothing).
Shift(pct, high, low) ==
  IF pct = Null THEN 0 ELSE IF pct >= high THEN 1 ELSE IF pct <= low THEN -1 ELSE 0
\* The regional and provincial percentages a bulletin carries, absent when the
\* bulletin is null or error-shaped.
Regional(bc) == IF bc.kind = "ok" THEN bc.vancouverIslandPctMedian ELSE Null
Provincial(bc) == IF bc.kind = "ok" THEN bc.provincialPctMedian ELSE Null

\* C14, as stated: the bias of the Seasonal Fallback is always one of -1, 0,
\* +1, +2, for every pair of regional and provincial percentages.
C14_BiasAsStated ==
  pc = "seasonal_ret" => sg.bias \in {-1, 0, 1, 2}
\* C14, amended: the bias is the sum of the regional shift (>= 110 gives +1,
\* <= 85 gives -1) and the provincial shift (>= 115 gives +1, <= 95 gives -1),
\* an absent percentage giving 0; it is always one of -2, -1, 0, +1, +2.
C14_Bias ==
  pc = "seasonal_ret" =>
    /\ sg.bias = Shift(Regional(bcSnowpack), 110, 85) + Shift(Provincial(bcSnowpack), 115, 95)
    /\ sg.bias \in {-2, -1, 0, 1, 2}
\* Both percentages sit on their low thresholds and the bias is -2.
C14_Witness ==
  /\ pc = "seasonal_ret"
  /\ Regional(bcSnowpack) = 85 /\ Provincial(bcSnowpack) = 95
  /\ sg.bias = -2

\* C15: seasonalGuess assigns each of the twelve months to one season window
\* as its comment lists them: May-Oct give the 'Next season' label with 'bad';
\* Nov and Dec the 'Likely ... (watch for first storms)' label with 'meh';
\* Jan and Feb the 'This week / next week (prime season)' label with 'meh';
\* Mar and Apr the 'Next 1-2 weeks (spring variable)' label with 'meh'.
WindowOf(month) ==
  IF month \in 4..9 THEN "off_season"
  ELSE IF month \in {10, 11} THEN "early_season"
  ELSE IF month \in {0, 1} THEN "prime_season"
  ELSE "spring"
WindowText(window) ==
  IF window = "off_season" THEN "Next season (aim for ${target}) - check again in fall"
  ELSE IF window = "early_season" THEN "Likely ${target} (watch for first storms)"
  ELSE IF window = "prime_season"
    THEN "This week / next week (prime season) - watch for fresh snow + cold nights"
  ELSE "Next 1-2 weeks (spring variable) - prioritize cold nights + fresh snow"
C15_SeasonWindows ==
  pc = "seasonal_ret" =>
    /\ next.label.text = WindowText(WindowOf(sg.month))
    /\ next.confidence = (IF WindowOf(sg.month) = "off_season" THEN "bad" ELSE "meh")

\* The target windows in calendar order.
WindowRank(target) ==
  CASE target = "mid/late Nov" -> 1
    [] target = "late Nov (maybe early)" -> 2
    [] target = "late Nov / early Dec" -> 3
    [] target = "late Nov / Dec" -> 4
    [] target = "early/mid Dec" -> 5
    [] target = "mid/late Dec" -> 6
    [] OTHER -> 0
\* C16: the snowpack bias changes the fallback's label only in the off-season
\* (May-Oct) and pre-season (Nov) branches, where a positive bias gives an
\* earlier target window and a negative bias a later one than bias 0; in the
\* other branches label and confidence are the same for every bulletin, and in
\* no branch does the bias change the confidence.
C16_BiasShiftsTargetOnly ==
  pc = "seasonal_ret" =>
    LET neutral == seasonalGuess(NullBulletin, sg.month)
    IN  /\ next.confidence = neutral.confidence
        /\ next.label.text = neutral.label.text
        /\ sg.month \notin 4..10 => next.label = neutral.label
        /\ sg.month \in 4..10 =>
             /\ sg.bias > 0 =>
                  WindowRank(next.label.target) < WindowRank(neutral.label.target)
             /\ sg.bias < 0 =>
                  WindowRank(next.label.target) > WindowRank(neutral.label.target)
             /\ sg.bias = 0 => next.label = neutral.label
        /\ \A b \in SeasonalBulletins :
             LET other == seasonalGuess(b, sg.month)
             IN  /\ other.confidence = next.confidence
                 /\ sg.month \notin 4..10 => other.label = next.label
\* November with a strong snowpack: the target moves from 'late Nov / early
\* Dec' to 'mid/late Nov'.
C16_Witness ==
  /\ pc = "seasonal_ret"
  /\ sg.month = 10 /\ sg.bias > 0
  /\ next.label.target = "mid/late Nov"
  /\ seasonalGuess(NullBulletin, sg.month).label.target = "late Nov / early Dec"

\* The sum of field f over the samples of one date.
RECURSIVE TotalOf(_, _, _, _)
TotalOf(h, date, f, i) ==
  IF i > Len(h) THEN 0
  ELSE (IF h[i].date = date THEN h[i][f] ELSE 0) + TotalOf(h, date, f, i + 1)
\* x (in hundredths) rounded to one decimal place: the multiple of a tenth
\* nearest to it, the upper one on a tie.
ToOneDecimal(x) == CHOOSE m \in 0..(x + 10) : m % 10 = 0 /\ m - 5 <= x /\ x < m + 5
\* C17: for every aggregated day, stoke is 'bad' whenever rainBefore3pm is
\* true, whatever the snowfall; otherwise 'good' if (snowfall > 0 and rain < 5)
\* or rain < 2; otherwise 'meh' -- snowfall and rain being the day's totals
\* after rounding to one decimal place.
C17_Stoke ==
  pc = "decide_call" =>
    \A i \in DOMAIN forecast.days :
      LET d == forecast.days[i]
          rain == ToOneDecimal(TotalOf(hourly, d.date, "rain", 1))
          snowfall == ToOneDecimal(TotalOf(hourly, d.date, "snow", 1))
      IN  /\ d.rainMm = rain /\ d.snowfallCm = snowfall
          /\ d.stoke = (IF RainyBefore3pm(hourly, d.date) THEN "bad"
                        ELSE IF (snowfall > 0 /\ rain < 500) \/ rain < 200 THEN "good"
                        ELSE "meh")
\* One day totals 1.96 mm of afternoon rain, which rounds to 2.0 and is 'meh';
\* the next has rain before 3pm and 3 cm of snow and is 'bad'.
C17_Witness ==
  /\ pc = "decide_call"
  /\ Len(forecast.days) = 2
  /\ TotalOf(hourly, 4, "rain", 1) = 196
  /\ ~forecast.days[1].rainBefore3pm /\ forecast.days[1].stoke = "meh"
  /\ forecast.days[2].rainBefore3pm /\ forecast.days[2].snowfallCm > 0
  /\ forecast.days[2].stoke = "bad"

\* The dates of the samples, each once, in order of first appearance.
RECURSIVE FirstAppearances(_, _, _)
FirstAppearances(h, i, seen) ==
  IF i > Len(h) THEN seen
  ELSE FirstAppearances(h, i + 1,
         IF \E k \in DOMAIN seen : seen[k] = h[i].date THEN seen
         ELSE Append(seen, h[i].date))
\* C18: the aggregator emits at most 14 days, one record per distinct local
\* date in order of first appearance in the hourly input, each built from at
\* least one hourly sample; only the record at index 0 is labelled as today.
C18_HorizonAndOrder ==
  pc = "decide_call" =>
    LET dates == FirstAppearances(hourly, 1, <<>>)
        days == forecast.days
    IN  /\ Len(days) <= 14
        /\ Len(days) = (IF Len(dates) < 14 THEN Len(dates) ELSE 14)
        /\ \A i \in DOMAIN days :
             /\ days[i].date = dates[i]
             /\ \E k \in DOMAIN hourly : hourly[k].date = days[i].date
             /\ (days[i].label.kind = "iso_today") <=> (i = 1)
\* Sixteen dates came in, the last sample revisiting an earlier date, and
\* fourteen days went out.
C18_Witness ==
  /\ pc = "decide_call"
  /\ Len(FirstAppearances(hourly, 1, <<>>)) = 16
  /\ Len(hourly) = 17
  /\ Len(forecast.days) = 14
  /\ forecast.days[14].date = 14

\* C19: decideNext returns 'good' if and only if the today rule fired (today
\* not excluded, liftOk, and snowOk or baseOk); the next-day scan always gives
\* 'meh' and the Seasonal Fallback never gives 'good', so neither forecast
\* content nor a bulletin value alone can produce 'good'; 'bad' is returned only
\* from the fallback's off-season (May-Oct) branch.
C19_ConfidenceSources ==
  pc = "decide_ret" =>
    LET today == TodayRuleFires(lifts, snow, forecast)
        scan == ~today /\ DryLaterDays(forecast) # {}
        fallback == ~today /\ DryLaterDays(forecast) = {}
    IN  /\ (next.confidence = "good") <=> today
        /\ scan => next.confidence = "meh"
        /\ fallback => next.confidence \in {"meh", "bad"}
        /\ (next.confidence = "bad") <=> (fallback /\ sg.month \in 4..9)
\* July: a three-day forecast whose day 0 is dry but whose later days are not,
\* a bulletin that was fetched, the today rule not met: 'bad' from the fallback.
C19_Witness ==
  /\ pc = "decide_ret"
  /\ ~TodayRuleFires(lifts, snow, forecast)
  /\ DryLaterDays(forecast) = {}
  /\ forecast.kind = "ok" /\ Len(forecast.days) = 3 /\ ~Day0Rainy(forecast)
  /\ bcSnowpack.kind = "ok"
  /\ sg.month = 6
  /\ next.confidence = "bad"

\* C20: in every forecast object fetchForecast returns, the emitted days have
\* pairwise distinct dates and excludeBefore3pmRain has exactly those dates as
\* keys, each mapped to that day's rainBefore3pm -- so decideNext, which reads
\* the map, decides exclusion for day 0 and for every scanned day exactly as
\* the day's own flag would.
C20_MapMirrorsDays ==
  (pc \in {"decide_call", "decide_ret"} /\ forecast.kind = "ok") =>
    LET days == forecast.days
        map == forecast.excludeBefore3pmRain
    IN  /\ \A i, j \in DOMAIN days : days[i].date = days[j].date => i = j
        /\ DOMAIN map = { days[i].date : i \in DOMAIN days }
        /\ \A i \in DOMAIN days : map[days[i].date] = days[i].rainBefore3pm
        /\ pc = "decide_ret" =>
             /\ dn.todayExcluded <=> Day0Rainy(forecast)
             /\ dn.branch # "today" =>
                  dn.nextDayPos = (IF DryLaterDays(forecast) = {} THEN 0
                                   ELSE Min(DryLaterDays(forecast)))
\* Three samples on two dates: day 0 has rain before 3pm, and the scan picks
\* day 1 on the strength of its entry in the map.
C20_Witness ==
  /\ pc = "decide_ret"
  /\ Len(hourly) = 3 /\ Len(forecast.days) = 2
  /\ forecast.excludeBefore3pmRain[forecast.days[1].date]
  /\ ~forecast.excludeBefore3pmRain[forecast.days[2].date]
  /\ dn.todayExcluded /\ dn.nextDayPos = 2
====
